---------------------------- MODULE Spec2Model ----------------------------
(***************************************************************************)
(* Model of the database seeding programs of snack-25-back.                *)
(*                                                                         *)
(* The repository holds three versions of the seeding program `main`:      *)
(*   "seed"   src/prisma/seed.ts:47-453   (fingerprint resync, then load)  *)
(*   "part2"  src/unnamed/part_002:40-391 (row-count resync, then load)    *)
(*   "legacy" src/prisma/seed.ts:491-778  (load, then row-count resync)    *)
(* Each run of a program is two interactive transactions.  A transaction   *)
(* works on `tx`, a private copy of the committed store `db`; commit       *)
(* copies it back, any thrown error discards it.                           *)
(*                                                                         *)
(* Text is a sequence of atoms: an atom is either the whitespace atom      *)
(* " " or an indivisible run of other characters.  A line of the feed is   *)
(* the sequence of its tab-separated fields.                               *)
(***************************************************************************)
EXTENDS Integers, Sequences, FiniteSets, TLC

VARIABLES
    variant,    \* which of the three programs is installed
    zipFk,      \* referential action of CompanyAddress.zipcodeId on delete
    data,       \* the JSON datasets loaded at module scope
    file,       \* zipcodes.tsv as found by the current run
    db,         \* the committed store
    tx,         \* the working copy of the open transaction
    pc,         \* position of the running program
    run,        \* number of runs started so far
    zipcodes,   \* the parsed rows of the feed (local of the resync)
    nextId,     \* next generated zipcode id
    branch,     \* resync branch taken by the current run
    error,      \* the error a failed unit threw
    snap,       \* the committed store when the current unit began
    old,        \* the committed store when the current run began
    before,     \* how the store was left before the current run began
    log,        \* the batches written by the current run, in order
    ins,        \* rows inserted by the current unit, per table
    del,        \* rows deleted by the current unit, per table
    ext,        \* number of writes made outside the seeding path
    pending     \* operations issued on tx together and not yet completed

vars == << variant, zipFk, data, file, db, tx, pc, run, zipcodes, nextId,
           branch, error, snap, old, before, log, ins, del, ext, pending >>

(***************************************************************************)
(* Bounds of the model.                                                    *)
(***************************************************************************)
MaxRuns == 2
MaxFeedLines == 2
MaxExt == 1

(***************************************************************************)
(* Text.                                                                   *)
(***************************************************************************)
WS == " "

RECURSIVE TrimStart(_)
TrimStart(s) ==
    IF s # << >> /\ Head(s) = WS THEN TrimStart(Tail(s)) ELSE s

RECURSIVE TrimEnd(_)
TrimEnd(s) ==
    IF s # << >> /\ s[Len(s)] = WS THEN TrimEnd(SubSeq(s, 1, Len(s) - 1)) ELSE s

\* String.prototype.trim
trim(s) == TrimEnd(TrimStart(s))

\* String.prototype.toLowerCase, atom by atom
toLowerCase(s) ==
    [i \in 1..Len(s) |-> CASE s[i] = "TRUE" -> "true"
                           [] s[i] = "True" -> "true"
                           [] s[i] = "FALSE" -> "false"
                           [] OTHER -> s[i]]

\* line.split('\t') destructured into four names: the i-th field, or
\* undefined when the line has fewer fields
HasField(line, i) == i <= Len(line)

\* !field : undefined and the empty string are falsy
Falsy(line, i) == ~HasField(line, i) \/ line[i] = << >>

\* the condition of the malformed-row check, per program
Malformed(v, line) ==
    IF v = "seed" THEN \E i \in 1..4 : Falsy(line, i)
    ELSE \E i \in 1..3 : Falsy(line, i)

\* juso.trim() on an undefined juso throws a TypeError (programs that do not
\* check the fourth field)
JusoThrows(line) == ~HasField(line, 4)

\* the object a well-formed line is mapped to
ParseRow(line) ==
    [ postalCode |-> trim(line[1]),
      feeType    |-> trim(line[2]),
      isActive   |-> toLowerCase(trim(line[3])) = << "true" >>,
      juso       |-> trim(line[4]) ]

\* zipCodesFile.split('\n').slice(1).filter(Boolean)
BlankLine == << << >> >>
DataLinesAll(text) == SelectSeq(text, LAMBDA l : l # BlankLine)
DataLines(text) == SelectSeq(Tail(text), LAMBDA l : l # BlankLine)

\* index of the first line the map callback throws on, 0 when none
RECURSIVE FirstBad(_, _, _)
FirstBad(v, lines, i) ==
    IF i > Len(lines) THEN 0
    ELSE IF Malformed(v, lines[i]) \/ JusoThrows(lines[i]) THEN i
    ELSE FirstBad(v, lines, i + 1)

ParseAll(lines) == [i \in 1..Len(lines) |-> ParseRow(lines[i])]

(***************************************************************************)
(* The fingerprint.  SHA-256 is taken to be collision free, so two digests *)
(* are equal exactly when the serialised arrays are: the digest is         *)
(* modelled by the array it is computed from, the rows in their order,     *)
(* each restricted to the three hashed fields.                             *)
(***************************************************************************)
hashDataWithJuso(rows) ==
    [i \in 1..Len(rows) |->
        [ postalCode |-> rows[i].postalCode, feeType |-> rows[i].feeType,
          isActive |-> rows[i].isActive, juso |-> rows[i].juso ]]

hashData(rows) ==
    [i \in 1..Len(rows) |->
        [ postalCode |-> rows[i].postalCode, feeType |-> rows[i].feeType,
          isActive |-> rows[i].isActive ]]

(***************************************************************************)
(* The datasets.  companies.json, users.json, ... are read once at module  *)
(* scope; a run sees them as arrays.                                       *)
(***************************************************************************)
NULL == "null"

Company(id) == [id |-> id, name |-> id]
User(id, c) == [id |-> id, companyId |-> c, email |-> id]
Product(id, cat, price) == [id |-> id, categoryId |-> cat, price |-> price]
Category(id, parent, c) ==
    [id |-> id, parentId |-> parent, companyId |-> c, name |-> id]
Cart(id, u) == [id |-> id, userId |-> u]
Address(id, c, code, text, z) ==
    [id |-> id, companyId |-> c, postalCode |-> code, address |-> text,
     zipcodeId |-> z]

\* Budget ids carry what the CUID2 test reads: length and alphabet
BudgetId(tag, len, lower) == [tag |-> tag, len |-> len, lower |-> lower]
Budget(id, c) == [id |-> id, companyId |-> c]

CuidLen == 24
\* /^[a-z0-9]{24}$/.test(id)
isValidCuid2(id) == id.len = CuidLen /\ id.lower

AllUsers ==
    << User("u1", "c1"), User("u2", "c1"), User("u3", "c1"), User("u4", "c1"),
       User("u5", "c1"), User("u6", "c1"), User("u7", "c1") >>

AllProducts ==
    << Product("p1", "sub1", 1000), Product("p2", "sub1", 500),
       Product("p3", "sub1", 200), Product("p4", "sub1", 100) >>

BudgetCuid == Budget(BudgetId("b1", 24, TRUE), "c1")
BudgetPlain == Budget(BudgetId("b2", 8, TRUE), "c1")

\* an address whose postal code holds a hyphen (the six-digit nnn-nnn form)
AddressHyphen == Address("a2", "c1", << "40200", "-", "B" >>, << "C" >>, 0)

BaseData ==
    [ companies        |-> << Company("c1"), Company("c2") >>,
      companyAddresses |->
          << Address("a1", "c1", << "63000" >>, << "A" >>, 2),
             Address("a2", "c1", << "40200" >>, << "C" >>, 0) >>,
      categories       |-> << Category("cat1", NULL, "c1") >>,
      subCategories    |-> << Category("sub1", "cat1", "c1") >>,
      users            |-> AllUsers,
      products         |-> AllProducts,
      budgets          |-> << BudgetCuid, BudgetPlain >>,
      carts            |-> << Cart("cart1", "u5") >> ]

Bundles ==
    { BaseData,
      [BaseData EXCEPT !.budgets = << >>],
      [BaseData EXCEPT !.budgets = << BudgetCuid >>],
      [BaseData EXCEPT !.users = SubSeq(AllUsers, 1, 2)],
      [BaseData EXCEPT !.categories = << >>],
      [BaseData EXCEPT !.categories = << Category("cat1", NULL, "c2") >>],
      [BaseData EXCEPT !.products = SubSeq(AllProducts, 1, 3)],
      [BaseData EXCEPT !.companies = << >>],
      [BaseData EXCEPT !.companies = << >>, !.companyAddresses = << >>],
      [BaseData EXCEPT !.users = SubSeq(AllUsers, 1, 2),
                       !.carts = << Cart("cart1", "u1") >>],
      [BaseData EXCEPT !.companyAddresses[2] = AddressHyphen] }

(***************************************************************************)
(* The store.  Zipcode rows are kept in the order they were inserted,      *)
(* which is the order an unordered findMany returns them in on a table     *)
(* that is only ever filled by one createMany; the other tables are sets   *)
(* of rows.  A zipcodeId of 0 is SQL NULL.                                 *)
(***************************************************************************)
Tables ==
    { "zip", "company", "address", "category", "user", "product", "cart",
      "orderRequest", "item", "budget", "orderItem" }

EmptyStore ==
    [ zip |-> << >>, company |-> {}, address |-> {}, category |-> {},
      user |-> {}, product |-> {}, cart |-> {}, orderRequest |-> {},
      item |-> {}, budget |-> {}, orderItem |-> {} ]

Ids(table) == { r.id : r \in table }
ZipIds(s) == { s.zip[i].id : i \in 1..Len(s.zip) }

\* a primary-key or unique-constraint collision of `row` with `table`
ConflictIdOnly(t, row, table) == \E r \in table : r.id = row.id

Conflict(t, row, table) ==
    CASE t = "category" ->
             \E r \in table :
                 \/ r.id = row.id
                 \/ /\ row.parentId # NULL
                    /\ r.companyId = row.companyId
                    /\ r.parentId = row.parentId
                    /\ r.name = row.name
      [] t = "user" -> \E r \in table : r.id = row.id \/ r.email = row.email
      [] t = "cart" -> \E r \in table : r.id = row.id \/ r.userId = row.userId
      [] t = "item" ->
             \E r \in table :
                 \/ r.id = row.id
                 \/ /\ r.orderRequestId = row.orderRequestId
                    /\ r.productId = row.productId
      [] t = "orderItem" ->
             \E r \in table :
                 \/ r.id = row.id
                 \/ /\ r.orderId = row.orderId
                    /\ r.productId = row.productId
      [] OTHER -> \E r \in table : r.id = row.id

\* the foreign keys of `row` all point at rows of the store `s`
FkOk(t, row, s) ==
    CASE t = "address" ->
             /\ row.companyId \in Ids(s.company)
             /\ row.zipcodeId = 0 \/ row.zipcodeId \in ZipIds(s)
      [] t = "category" ->
             /\ row.companyId \in Ids(s.company)
             /\ row.parentId = NULL \/ row.parentId \in Ids(s.category)
      [] t = "user" -> row.companyId \in Ids(s.company)
      [] t = "product" -> row.categoryId \in Ids(s.category)
      [] t = "cart" -> row.userId \in Ids(s.user)
      [] t = "orderRequest" ->
             /\ row.requesterId \in Ids(s.user)
             /\ row.companyId \in Ids(s.company)
      [] t = "item" ->
             /\ row.orderRequestId \in Ids(s.orderRequest)
             /\ row.productId \in Ids(s.product)
      [] t = "budget" -> row.companyId \in Ids(s.company)
      [] t = "orderItem" -> row.productId \in Ids(s.product)
      [] OTHER -> TRUE

\* the rows of `batch` that createMany({ skipDuplicates: true }) inserts
\* into `table`, in batch order: INSERT ... ON CONFLICT DO NOTHING
RECURSIVE Accepted(_, _, _)
Accepted(t, batch, table) ==
    IF batch = << >> THEN << >>
    ELSE IF Conflict(t, Head(batch), table)
         THEN Accepted(t, Tail(batch), table)
         ELSE << Head(batch) >>
              \o Accepted(t, Tail(batch), table \cup { Head(batch) })

Range(seq) == { seq[i] : i \in 1..Len(seq) }

\* a sequence of create() calls, one per row of `batch`, hits a collision
\* (create has no skipDuplicates: it throws P2002)
RECURSIVE CreateCollides(_, _, _)
CreateCollides(t, batch, table) ==
    /\ batch # << >>
    /\ \/ Conflict(t, Head(batch), table)
       \/ CreateCollides(t, Tail(batch), table \cup { Head(batch) })

(***************************************************************************)
(* The feed.  zipcodes.tsv is a header line followed by data lines.        *)
(***************************************************************************)
Header == << << "postalCode" >>, << "feeType" >>, << "isActive" >>, << "juso" >> >>

LineJeju == << << "63000" >>, << "JEJU" >>, << "true" >>, << "A" >> >>
LineJejuPadded ==
    << << WS, "63000" >>, << "JEJU", WS >>, << WS, "TRUE" >>, << "A", WS >> >>
LineJejuFree == << << "63000" >>, << "NOT_APPLICABLE" >>, << "true" >>, << "A" >> >>
LineIsland ==
    << << "40200" >>, << "ISOLATED" >>, << "false" >>, << "B", "-", "C" >> >>
LineJejuMoved == [LineJeju EXCEPT ![4] = << "D" >>]

\* lines that lack a field: cut after the third, or one field empty
LineCut == SubSeq(LineJeju, 1, 3)
LineNoJuso == [LineJeju EXCEPT ![4] = << >>]
LineNoFee == [LineIsland EXCEPT ![2] = << >>]

FeedLines ==
    { LineJeju, LineJejuPadded, LineJejuFree, LineIsland, BlankLine,
      LineCut, LineNoJuso, LineNoFee, LineJejuMoved }

SeqsUpTo(S, n) == UNION { [1..k -> S] : k \in 0..n }

\* ReferenceCode is unique per (code, address): a feed holds no two lines
\* with the same code and address
KeyOf(line) == << trim(line[1]), IF HasField(line, 4) THEN trim(line[4]) ELSE << >> >>
DistinctKeys(body) ==
    \A i, j \in 1..Len(body) :
        (i # j /\ body[i] # BlankLine /\ body[j] # BlankLine)
            => KeyOf(body[i]) # KeyOf(body[j])

Files ==
    { [exists |-> FALSE, text |-> << Header >>] }
    \cup { [exists |-> TRUE, text |-> << Header >> \o body] :
             body \in { b \in SeqsUpTo(FeedLines, MaxFeedLines) : DistinctKeys(b) } }

(***************************************************************************)
(* The row count the count-based programs take for "everything is there":  *)
(* 11931 in the sources, the number of data lines of the shipped feed.     *)
(* The model scales the feed and this count down together.                 *)
(***************************************************************************)
ZipcodeTotal == 2

(***************************************************************************)
(* Running a program.                                                      *)
(***************************************************************************)
ResyncPcs == { "z_read", "z_decide", "z_null", "z_delete", "z_create", "z_commit" }
LoadPcs ==
    { "l_company", "l_address", "l_category", "l_sub", "l_user", "l_product",
      "l_cart", "l_order", "l_items", "l_totals", "l_budget", "l_commit",
      "p_items", "p_totals" }
RestPcs == { "init", "done", "failed", "edited" }

NoError == [kind |-> "none", msg |-> "", line |-> << >>, at |-> "none", dirty |-> FALSE]
Zero == [t \in Tables |-> 0]

Init ==
    /\ variant \in { "seed", "part2", "legacy" }
    /\ zipFk \in { "SetNull", "Restrict" }
    /\ variant = "seed" => zipFk = "SetNull"
    \* the legacy program stores no address: the reference's rule is moot
    /\ variant = "legacy" => zipFk = "SetNull"
    /\ data \in Bundles
    \* only seed.ts:47-453 reads budgets.json
    /\ variant # "seed" => data.budgets = BaseData.budgets
    /\ file = [exists |-> FALSE, text |-> << Header >>]
    /\ db = EmptyStore
    /\ tx = EmptyStore
    /\ pc = "init"
    /\ run = 0
    /\ zipcodes = << >>
    /\ nextId = 1
    /\ branch = "none"
    /\ error = NoError
    /\ snap = EmptyStore
    /\ old = EmptyStore
    /\ before = "init"
    /\ log = << >>
    /\ ins = Zero
    /\ del = Zero
    /\ ext = 0
    /\ pending = {}

\* the two transactions of main, in the order the program awaits them
FirstPc(v) == IF v = "legacy" THEN "l_company" ELSE "z_read"
AfterResync(v) == IF v = "legacy" THEN "done" ELSE "l_company"
AfterLoad(v) == IF v = "legacy" THEN "z_read" ELSE "done"

\* prisma.$transaction(...) entered: the callback works on its own copy
Begin(p) ==
    /\ pc' = p
    /\ tx' = db
    /\ snap' = db

\* what a rolled-back unit leaves of the run's counts: the resync writes
\* zipcodes (and nulls address references), the load writes the rest
Undo(c) ==
    IF pc \in ResyncPcs THEN [c EXCEPT !["zip"] = 0]
    ELSE [t \in Tables |-> IF t = "zip" THEN c[t] ELSE 0]

\* an error thrown inside the callback: $transaction rolls back, main
\* rejects and main().catch ends the process
\* what is left of a run whose process has ended on an error: the locals
\* are gone with the process
Ended ==
    /\ file' = [exists |-> FALSE, text |-> << Header >>]
    /\ zipcodes' = << >>
    /\ branch' = "none"
    /\ log' = << >>
    /\ pending' = {}
    /\ UNCHANGED << variant, zipFk, data, run, nextId, snap, old, before, ext >>

\* the error object, with the step that threw it and whether the unit had
\* written anything by then
Thrown(kind, msg, line) ==
    [kind |-> kind, msg |-> msg, line |-> line, at |-> pc, dirty |-> tx # db]

ThrowKeep(kind, msg, line) ==
    /\ pc' = "failed"
    /\ error' = Thrown(kind, msg, line)
    /\ tx' = tx
    /\ db' = tx
    /\ ins' = ins
    /\ del' = del
    /\ Ended

Throw(kind, msg, line) ==
    /\ pc' = "failed"
    /\ error' = Thrown(kind, msg, line)
    /\ tx' = db
    /\ db' = db
    /\ ins' = Undo(ins)
    /\ del' = Undo(del)
    /\ Ended

\* the callback returned: the transaction commits and main goes on
CommitTo(p) ==
    /\ db' = tx
    /\ IF p \in RestPcs
       THEN pc' = p /\ tx' = tx /\ snap' = snap
       ELSE pc' = p /\ tx' = tx /\ snap' = tx

StartRun ==
    /\ pc \in RestPcs
    /\ run < MaxRuns
    /\ \E f \in Files : file' = f
    /\ run' = run + 1
    /\ before' = pc
    /\ old' = db
    /\ Begin(FirstPc(variant))
    /\ zipcodes' = << >>
    /\ branch' = "none"
    /\ error' = NoError
    /\ log' = << >>
    /\ ins' = Zero
    /\ del' = Zero
    /\ UNCHANGED << pending, variant, zipFk, data, db, nextId, ext >>

\* the catch block's report of an error: a BadRequestException is input
\* data, a PrismaClientKnownRequestError (the expired transaction's P2028
\* among them) is a Prisma request error with its code, the rest unknown
Reported(e) ==
    CASE e.kind = "BadRequest" -> << "input", e.msg >>
      [] e.kind = "Prisma" -> << "prisma", e.msg >>
      [] e.kind = "Timeout" -> << "prisma", "P2028" >>
      [] OTHER -> << "unknown", e.msg >>

\* the transaction's 30 s bound passes while the callback is running
TxTimeoutBadRequest ==
    /\ pc \in ResyncPcs \cup LoadPcs
    /\ Throw("BadRequest", "transaction timeout", << >>)

TxTimeout ==
    /\ pc \in ResyncPcs \cup LoadPcs
    /\ Throw("Timeout", "transaction timeout", << >>)

(***************************************************************************)
(* The reference-code resync.                                              *)
(***************************************************************************)
Frame == << variant, zipFk, data, file, db, run, old, before, ext, pending >>

\* existsSync, readFileSync, and the map over the data lines
ResyncRead ==
    /\ pc = "z_read"
    /\ IF ~file.exists
       THEN IF variant = "seed"
            THEN Throw("BadRequest", "zipcodes.tsv not found", << >>)
            ELSE /\ CommitTo(AfterResync(variant))
                 /\ UNCHANGED << pending, variant, zipFk, data, file, run, zipcodes,
                                 nextId, branch, error, old, before, log, ins,
                                 del, ext >>
       ELSE LET lines == DataLines(file.text)
                b == FirstBad(variant, lines, 1)
            IN  IF b = 0
                THEN /\ zipcodes' = ParseAll(lines)
                     /\ pc' = "z_decide"
                     /\ UNCHANGED << Frame, tx, nextId, branch, error, snap,
                                     log, ins, del >>
                ELSE IF Malformed(variant, lines[b])
                     THEN Throw("BadRequest", "malformed row", lines[b])
                     ELSE Throw("TypeError", "juso is undefined", << >>)

\* hasChanges, or the count test of the count-based programs
NeedsReplaceByCount(v, stored, incoming) == Len(stored) # ZipcodeTotal
NeedsReplace(v, stored, incoming) ==
    IF v = "seed" THEN hashData(stored) # hashData(incoming)
    ELSE Len(stored) # ZipcodeTotal

ResyncDecide ==
    /\ pc = "z_decide"
    /\ IF Len(tx.zip) = 0
       THEN branch' = "empty-load" /\ pc' = "z_create"
       ELSE IF NeedsReplace(variant, tx.zip, zipcodes)
            THEN /\ branch' = "full-replace"
                 /\ pc' = IF variant = "seed" THEN "z_null" ELSE "z_delete"
            ELSE branch' = "no-op" /\ pc' = "z_commit"
    /\ UNCHANGED << Frame, tx, zipcodes, nextId, error, snap, log, ins, del >>

Unlinked(addresses) == { [a EXCEPT !.zipcodeId = 0] : a \in addresses }

\* companyAddress.updateMany({ where: {}, data: { zipcodeId: null } })
ResyncNull ==
    /\ pc = "z_null"
    /\ tx' = [tx EXCEPT !.address = Unlinked(@)]
    /\ pc' = "z_delete"
    /\ log' = Append(log, "unlink")
    /\ UNCHANGED << Frame, zipcodes, nextId, branch, error, snap, ins, del >>

\* zipcode.deleteMany()
ResyncDelete ==
    /\ pc = "z_delete"
    /\ IF zipFk = "Restrict" /\ \E a \in tx.address : a.zipcodeId # 0
       THEN Throw("Prisma", "P2003", << >>)
       ELSE /\ tx' = [tx EXCEPT !.zip = << >>, !.address = Unlinked(@)]
            /\ del' = [del EXCEPT !["zip"] = @ + Len(tx.zip)]
            /\ pc' = "z_create"
            /\ log' = Append(log, "zip-delete")
            /\ UNCHANGED << Frame, zipcodes, nextId, branch, error, snap, ins >>

\* zipcode.createMany({ data: zipcodes, skipDuplicates: true }): every row
\* gets a fresh generated id
NewZipRows(rows, first) ==
    [i \in 1..Len(rows) |->
        [ id |-> first + i - 1, postalCode |-> rows[i].postalCode,
          feeType |-> rows[i].feeType, isActive |-> rows[i].isActive,
          juso |-> rows[i].juso ]]

ResyncCreate ==
    /\ pc = "z_create"
    /\ tx' = [tx EXCEPT !.zip = @ \o NewZipRows(zipcodes, nextId)]
    /\ nextId' = nextId + Len(zipcodes)
    /\ ins' = [ins EXCEPT !["zip"] = @ + Len(zipcodes)]
    /\ pc' = "z_commit"
    /\ log' = Append(log, "zip")
    /\ UNCHANGED << Frame, zipcodes, branch, error, snap, del >>

ResyncCommit ==
    /\ pc = "z_commit"
    /\ CommitTo(AfterResync(variant))
    /\ UNCHANGED << pending, variant, zipFk, data, file, run, zipcodes, nextId, branch,
                    error, old, before, log, ins, del, ext >>

(***************************************************************************)
(* The dependency-ordered load.                                            *)
(***************************************************************************)
LLocals == << variant, zipFk, data, file, db, run, zipcodes, nextId, branch,
              error, snap, old, before, ext >>
LFrame == << LLocals, pending >>

\* the batch a step writes: the table's name, the sub-categories apart
Batch(t) == IF pc = "l_sub" THEN "subcategory" ELSE t

\* one write of the load: `rows` inserted into table t, then on to pc p
Write(t, rows, p) ==
    /\ tx' = [tx EXCEPT ![t] = @ \cup rows]
    /\ ins' = [ins EXCEPT ![t] = @ + Cardinality(rows \ tx[t])]
    /\ del' = del
    /\ log' = Append(log, Batch(t))
    /\ pc' = p
    /\ UNCHANGED LFrame

\* createMany({ data: batch, skipDuplicates: true }) on table t
CreateManyUpsert(t, batch, p) ==
    /\ tx' = [tx EXCEPT ![t] =
                 { r \in @ : r.id \notin Ids(Range(batch)) } \cup Range(batch)]
    /\ ins' = [ins EXCEPT ![t] = @ + Cardinality(Range(batch) \ tx[t])]
    /\ del' = del
    /\ log' = Append(log, Batch(t))
    /\ pc' = p
    /\ UNCHANGED LFrame

CreateMany(t, batch, p) ==
    LET rows == Range(Accepted(t, batch, tx[t]))
    IN  IF \E r \in rows : ~FkOk(t, r, tx)
        THEN Throw("Prisma", "P2003", << >>)
        ELSE Write(t, rows, p)

\* const testCompany = companies[0]
HasTestCompany == Len(data.companies) > 0
testCompany == data.companies[1]

Stamp(batch, c) == [i \in 1..Len(batch) |-> [batch[i] EXCEPT !.companyId = c]]

\* company.createMany; the legacy program upserts the test company alone
LoadCompany ==
    /\ pc = "l_company"
    /\ IF variant = "legacy"
       THEN IF ~HasTestCompany
            THEN Throw("BadRequest", "Test company not found", << >>)
            ELSE Write("company",
                       IF testCompany.id \in Ids(tx.company) THEN {}
                       ELSE { testCompany },
                       "l_category")
       ELSE CreateMany("company", data.companies, "l_address")

\* the resolver: the stored row whose postal code and address text are the
\* address's own.  zipCodeMap is keyed by `${postalCode}-${juso}`; a Map
\* keeps the last row of a key, find() returns the first match
Hyphen == << "-" >>
MapKey(code, text) == code \o Hyphen \o text

Matches(v, zips, a) ==
    IF v = "seed"
    THEN { i \in 1..Len(zips) :
             MapKey(zips[i].postalCode, zips[i].juso)
                 = MapKey(a.postalCode, a.address) }
    ELSE { i \in 1..Len(zips) :
             zips[i].postalCode = a.postalCode /\ zips[i].juso = a.address }

Max(S) == CHOOSE x \in S : \A y \in S : y <= x
Min(S) == CHOOSE x \in S : \A y \in S : x <= y

matchingZipcodeKept(v, zips, a) ==
    LET m == Matches(v, zips, a)
    IN  IF m = {} THEN a.zipcodeId
        ELSE IF v = "seed" THEN zips[Max(m)].id ELSE zips[Min(m)].id

matchingZipcode(v, zips, a) ==
    LET m == Matches(v, zips, a)
    IN  IF m = {} THEN 0
        ELSE IF v = "seed" THEN zips[Max(m)].id ELSE zips[Min(m)].id

\* { ...rest, companyId, ...(matchingZipcode ? { zipcodeId } : {}) }
addressesToCreate(v, zips, batch) ==
    [i \in 1..Len(batch) |->
        [batch[i] EXCEPT !.zipcodeId = matchingZipcode(v, zips, batch[i])]]

\* companyAddress.createMany in one batch; part2 calls create per address
LoadAddress ==
    /\ pc = "l_address"
    /\ LET rows == addressesToCreate(variant, tx.zip, data.companyAddresses)
       IN  IF variant = "seed"
           THEN CreateMany("address", rows, "l_category")
           ELSE IF CreateCollides("address", rows, tx.address)
                THEN Throw("Prisma", "P2002", << >>)
                ELSE IF \E r \in Range(rows) : ~FkOk("address", r, tx)
                     THEN Throw("Prisma", "P2003", << >>)
                     ELSE Write("address", Range(rows), "l_category")

\* the category batch as inserted: stamped with testCompany.id, except in
\* the legacy program, which inserts it as supplied
Stamped(v, batch) ==
    IF v = "legacy" THEN batch ELSE Stamp(batch, testCompany.id)

LoadCategoryStep(batch, msg, p) ==
    IF variant # "legacy" /\ batch # << >> /\ ~HasTestCompany
    THEN Throw("TypeError", "testCompany is undefined", << >>)
    ELSE IF batch = << >>
         THEN Throw("BadRequest", msg, << >>)
         ELSE CreateMany("category", Stamped(variant, batch), p)

LoadCategory ==
    /\ pc = "l_category"
    /\ LoadCategoryStep(data.categories, "Categories not found", "l_sub")

LoadSubCategory ==
    /\ pc = "l_sub"
    /\ LoadCategoryStep(data.subCategories, "SubCategories not found", "l_user")

LoadUser ==
    /\ pc = "l_user"
    /\ CreateMany("user", data.users, "l_product")

LoadProduct ==
    /\ pc = "l_product"
    /\ CreateMany("product", data.products, "l_cart")

\* cart.createMany; part2 and legacy upsert one cart for users[4]
FixedCartId == "cart1"

LoadCart ==
    /\ pc = "l_cart"
    /\ IF variant = "seed"
       THEN CreateMany("cart", data.carts, "l_order")
       ELSE IF Len(data.users) < 5
            THEN Throw("BadRequest", "USER_ID_NOT_FOUND", << >>)
            ELSE IF FixedCartId \in Ids(tx.cart)
                 THEN Write("cart", {}, "l_order")
                 ELSE LET row == Cart(FixedCartId, data.users[5].id)
                      IN  IF Conflict("cart", row, tx.cart)
                          THEN Throw("Prisma", "P2002", << >>)
                          ELSE IF ~FkOk("cart", row, tx)
                               THEN Throw("Prisma", "P2003", << >>)
                               ELSE Write("cart", { row }, "l_order")

\* the three seeded order requests
orderRequestIds == << "or1", "or2", "or3" >>
RequesterIndex == << 1, 7, 2 >>
SeedStatus == << "PENDING", "APPROVED", "REJECTED" >>

\* getRequiredId over users[0], users[6], users[1] and testCompany, in the
\* order the array literal evaluates them: the first that is missing
MissingRequired ==
    IF Len(data.users) < 1 THEN "REQUESTER_ID_NOT_FOUND"
    ELSE IF ~HasTestCompany THEN "COMPANY_ID_NOT_FOUND"
    ELSE IF Len(data.users) < 7 THEN "REQUESTER_ID_NOT_FOUND"
    ELSE "none"

OrderRequestRows ==
    [i \in 1..3 |->
        [ id |-> orderRequestIds[i],
          requesterId |-> data.users[RequesterIndex[i]].id,
          companyId |-> testCompany.id,
          status |-> SeedStatus[i],
          totalAmount |-> 0 ]]

LoadOrderRequest ==
    /\ pc = "l_order"
    /\ IF MissingRequired # "none"
       THEN Throw("BadRequest", MissingRequired, << >>)
       ELSE CreateMany("orderRequest", OrderRequestRows, "l_items")

\* the six seeded line items: (order request, product index, quantity)
orderRequestItemsIds == << "it1", "it2", "it3", "it4", "it5", "it6" >>
ItemRequest == << 1, 1, 2, 2, 2, 3 >>
ItemProduct == << 1, 2, 2, 3, 4, 2 >>
ItemQuantity == << 2, 3, 1, 3, 4, 2 >>

orderRequestItems ==
    [i \in 1..6 |->
        [ id |-> orderRequestItemsIds[i],
          orderRequestId |-> orderRequestIds[ItemRequest[i]],
          productId |-> data.products[ItemProduct[i]].id,
          quantity |-> ItemQuantity[i],
          price |-> data.products[ItemProduct[i]].price ]]

\* orderRequestItems.filter(item => !existingItemIds.has(item.id))
itemsToCreate(items, stored) ==
    SelectSeq(items, LAMBDA it : it.id \notin Ids(stored))

\* orderRequestItem.create for every item that is not stored under its id
LoadItems ==
    /\ pc = "l_items"
    /\ IF Len(data.products) < 4
       THEN Throw("TypeError", "products[i] is undefined", << >>)
       ELSE LET todo == itemsToCreate(orderRequestItems, tx.item)
            IN  IF CreateCollides("item", todo, tx.item)
                THEN Throw("Prisma", "P2002", << >>)
                ELSE IF \E r \in Range(todo) : ~FkOk("item", r, tx)
                     THEN Throw("Prisma", "P2003", << >>)
                     ELSE Write("item", Range(todo), "l_totals")

\* sum of price * quantity over a set of line items
RECURSIVE SumItems(_)
SumItems(items) ==
    IF items = {} THEN 0
    ELSE LET it == CHOOSE x \in items : TRUE
         IN  it.price * it.quantity + SumItems(items \ { it })

ItemsOf(items, id) == { it \in items : it.orderRequestId = id }

\* the order requests the recomputation updates: the keys of orderTotals
\* (requests with at least one item); part2 and legacy loop over all three
TotalsTargets(v, items) ==
    IF v = "seed"
    THEN { id \in Range(orderRequestIds) : ItemsOf(items, id) # {} }
    ELSE Range(orderRequestIds)

totalAmountStale(items, r) == r.totalAmount
totalAmountLive(items, r) ==
    SumItems({ [it EXCEPT !.price =
                   (CHOOSE q \in tx.product : q.id = it.productId).price] :
               it \in ItemsOf(items, r.id) })
totalAmount(items, r) == SumItems(ItemsOf(items, r.id))

Retotalled(v, s) ==
    { IF r.id \in TotalsTargets(v, s.item)
      THEN [r EXCEPT !.totalAmount = totalAmount(s.item, r)]
      ELSE r : r \in s.orderRequest }

LoadTotals ==
    /\ pc = "l_totals"
    /\ IF TotalsTargets(variant, tx.item) \ Ids(tx.orderRequest) # {}
       THEN Throw("Prisma", "P2025", << >>)
       ELSE /\ tx' = [tx EXCEPT !.orderRequest = Retotalled(variant, tx)]
            /\ log' = Append(log, "totals")
            /\ pc' = IF variant = "seed" THEN "l_budget" ELSE "l_commit"
            /\ UNCHANGED << LFrame, ins, del >>

(***************************************************************************)
(* Steps 8 and 9 of seed.ts operation by operation.  Promise.all issues    *)
(* every operation of its array at once; on the one connection of the      *)
(* transaction they complete one at a time, in any order, and the await    *)
(* resumes when all have.                                                  *)
(***************************************************************************)
AllSettledEarly(ops) == TRUE

\* await Promise.all(ops)
AllSettled(ops) == ops = {}

CreateOp(row) == [op |-> "create", id |-> row.id, row |-> row, total |-> 0]
UpdateOp(id, items) ==
    [op |-> "update", id |-> id, row |-> NULL,
     total |-> SumItems(ItemsOf(items, id))]

\* itemsToCreate.map(item => tx.orderRequestItem.create({ data: item }))
ParItemsIssue ==
    /\ pc = "l_items"
    /\ IF Len(data.products) < 4
       THEN Throw("TypeError", "products[i] is undefined", << >>)
       ELSE /\ pending' = { CreateOp(it) :
                              it \in Range(itemsToCreate(orderRequestItems,
                                                         tx.item)) }
            /\ pc' = "p_items"
            /\ UNCHANGED << LLocals, tx, ins, del, log >>

\* one orderRequestItem.create completes
ParItemCreate ==
    /\ pc \in { "p_items", "p_totals" }
    /\ \E o \in pending :
          /\ o.op = "create"
          /\ IF Conflict("item", o.row, tx.item)
             THEN Throw("Prisma", "P2002", << >>)
             ELSE IF ~FkOk("item", o.row, tx)
                  THEN Throw("Prisma", "P2003", << >>)
                  ELSE /\ tx' = [tx EXCEPT !.item = @ \cup { o.row }]
                       /\ ins' = [ins EXCEPT !["item"] = @ + 1]
                       /\ pending' = pending \ { o }
                       /\ UNCHANGED << LLocals, pc, del, log >>

\* the inserts are awaited; findMany, the reduce into orderTotals, and
\* Object.entries(orderTotals).map(... => tx.orderRequest.update(...))
ParTotalsIssue ==
    /\ pc = "p_items"
    /\ AllSettled(pending)
    /\ pending' = pending \cup
                    { UpdateOp(id, tx.item) :
                        id \in TotalsTargets(variant, tx.item) }
    /\ log' = Append(log, "item")
    /\ pc' = "p_totals"
    /\ UNCHANGED << LLocals, tx, ins, del >>

\* one orderRequest.update completes
ParTotalUpdate ==
    /\ pc = "p_totals"
    /\ \E o \in pending :
          /\ o.op = "update"
          /\ IF o.id \notin Ids(tx.orderRequest)
             THEN Throw("Prisma", "P2025", << >>)
             ELSE /\ tx' = [tx EXCEPT !.orderRequest =
                               { IF r.id = o.id
                                 THEN [r EXCEPT !.totalAmount = o.total]
                                 ELSE r : r \in @ }]
                  /\ pending' = pending \ { o }
                  /\ UNCHANGED << LLocals, pc, ins, del, log >>

\* the updates are awaited
ParTotalsJoin ==
    /\ pc = "p_totals"
    /\ AllSettled(pending)
    /\ log' = Append(log, "totals")
    /\ pc' = "l_budget"
    /\ UNCHANGED << LFrame, tx, ins, del >>

\* the Budget step of seed.ts
validIds(batch) == { batch[i].id : i \in { j \in 1..Len(batch) : isValidCuid2(batch[j].id) } }
invalidBudgets(stored, batch) == { b \in stored : b.id \notin validIds(batch) }
newBudgets(batch) == SelectSeq(batch, LAMBDA b : ~isValidCuid2(b.id))

LoadBudget ==
    /\ pc = "l_budget"
    /\ IF data.budgets = << >>
       THEN /\ pc' = "l_commit"
            /\ UNCHANGED << LFrame, tx, ins, del, log >>
       ELSE LET gone == invalidBudgets(tx.budget, data.budgets)
                kept == tx.budget \ gone
                rows == Range(Accepted("budget", newBudgets(data.budgets), kept))
            IN  /\ tx' = [tx EXCEPT !.budget = kept \cup rows]
                /\ del' = [del EXCEPT !["budget"] = @ + Cardinality(gone)]
                /\ ins' = [ins EXCEPT !["budget"] = @ + Cardinality(rows)]
                /\ log' = Append(log, "budget")
                /\ pc' = "l_commit"
                /\ UNCHANGED LFrame

LoadCommit ==
    /\ pc = "l_commit"
    /\ CommitTo(AfterLoad(variant))
    /\ UNCHANGED << pending, variant, zipFk, data, file, run, zipcodes, nextId, branch,
                    error, old, before, log, ins, del, ext >>

(***************************************************************************)
(* A write made outside the seeding path, between two runs: a line item    *)
(* added by hand to a stored order request.  The store's constraints hold  *)
(* for it; the envelope's total is not touched.                            *)
(***************************************************************************)
ManualItemId == "manual"
ManualProducts == { "p4" }

ManualAddItem ==
    /\ pc \in { "done", "failed", "edited" }
    /\ ext < MaxExt
    /\ \E o \in db.orderRequest, p \in { q \in db.product : q.id \in ManualProducts } :
         LET row == [ id |-> ManualItemId, orderRequestId |-> o.id,
                      productId |-> p.id, quantity |-> 1, price |-> p.price ]
         IN  /\ ~Conflict("item", row, db.item)
             /\ db' = [db EXCEPT !.item = @ \cup { row }]
    /\ pc' = "edited"
    /\ ext' = ext + 1
    /\ UNCHANGED << pending, variant, zipFk, data, file, tx, run, zipcodes, nextId,
                    branch, error, snap, old, before, log, ins, del >>

\* a seeded line item deleted by hand between two runs
ManualDeleteIds == { "it2", "it6" }

ManualDeleteItem ==
    /\ pc \in { "done", "failed", "edited" }
    /\ ext < MaxExt
    /\ \E it \in db.item :
         /\ it.id \in ManualDeleteIds
         /\ db' = [db EXCEPT !.item = @ \ { it }]
    /\ pc' = "edited"
    /\ ext' = ext + 1
    /\ UNCHANGED << pending, variant, zipFk, data, file, tx, run, zipcodes, nextId,
                    branch, error, snap, old, before, log, ins, del >>

\* a stored company, user, product or order request changed through the
\* application between two runs: the company renamed, the user's e-mail
\* changed, the product repriced, the pending order request approved
EditedPrice == 550
EditTables == { "company", "user", "product", "orderRequest" }
EditTarget ==
    [company |-> "c1", user |-> "u1", product |-> "p2", orderRequest |-> "or1"]
Edited(t, r) ==
    CASE t = "company" -> [r EXCEPT !.name = "edited"]
      [] t = "user" -> [r EXCEPT !.email = "edited"]
      [] t = "orderRequest" -> [r EXCEPT !.status = "APPROVED"]
      [] OTHER -> [r EXCEPT !.price = EditedPrice]

ManualEdit ==
    /\ pc \in { "done", "failed", "edited" }
    /\ ext < MaxExt
    /\ \E t \in EditTables : \E r \in db[t] :
         /\ r.id = EditTarget[t]
         /\ db' = [db EXCEPT ![t] = (@ \ { r }) \cup { Edited(t, r) }]
    /\ pc' = "edited"
    /\ ext' = ext + 1
    /\ UNCHANGED << pending, variant, zipFk, data, file, tx, run, zipcodes, nextId,
                    branch, error, snap, old, before, log, ins, del >>

\* a seeded line item entered again by hand between two runs: the row is
\* deleted and created anew for the same request and product, under the
\* id the application gives it
ReenterId == "it6"

ManualReenterItem ==
    /\ pc \in { "done", "failed", "edited" }
    /\ ext < MaxExt
    /\ \E it \in db.item :
         /\ it.id = ReenterId
         /\ ~Conflict("item", [it EXCEPT !.id = ManualItemId], db.item \ { it })
         /\ db' = [db EXCEPT !.item =
                       (@ \ { it }) \cup { [it EXCEPT !.id = ManualItemId] }]
    /\ pc' = "edited"
    /\ ext' = ext + 1
    /\ UNCHANGED << pending, variant, zipFk, data, file, tx, run, zipcodes, nextId,
                    branch, error, snap, old, before, log, ins, del >>

\* an order placed through the application between two runs, with one
\* order item per line; the store takes all of its lines or none
OrderItemIds == << "oi1", "oi2" >>
OrderLines == { << "p3" >>, << "p3", "p4" >>, << "p4", "p4" >> }
OrderItems(lines) ==
    [i \in 1..Len(lines) |->
        [id |-> OrderItemIds[i], orderId |-> "o1", productId |-> lines[i]]]

ManualAddOrder ==
    /\ pc \in { "done", "failed", "edited" }
    /\ ext < MaxExt
    /\ \E lines \in OrderLines :
         /\ ~CreateCollides("orderItem", OrderItems(lines), db.orderItem)
         /\ \A r \in Range(OrderItems(lines)) : FkOk("orderItem", r, db)
         /\ db' = [db EXCEPT !.orderItem = @ \cup Range(OrderItems(lines))]
    /\ pc' = "edited"
    /\ ext' = ext + 1
    /\ UNCHANGED << pending, variant, zipFk, data, file, tx, run, zipcodes, nextId,
                    branch, error, snap, old, before, log, ins, del >>

\* products.json edited between two runs: the second product repriced
ManualEditDataset ==
    /\ pc \in { "done", "failed", "edited" }
    /\ ext < MaxExt
    /\ Len(data.products) >= 2
    /\ data.products[2].price # EditedPrice
    /\ data' = [data EXCEPT !.products[2].price = EditedPrice]
    /\ pc' = "edited"
    /\ ext' = ext + 1
    /\ UNCHANGED << pending, variant, zipFk, file, db, tx, run, zipcodes, nextId,
                    branch, error, snap, old, before, log, ins, del >>

\* a second organization created by the application, between two runs
OtherCompany == Company("c2")

ManualAddCompany ==
    /\ pc \in { "done", "failed", "edited" }
    /\ ext < MaxExt
    /\ ~Conflict("company", OtherCompany, db.company)
    /\ db' = [db EXCEPT !.company = @ \cup { OtherCompany }]
    /\ pc' = "edited"
    /\ ext' = ext + 1
    /\ UNCHANGED << pending, variant, zipFk, data, file, tx, run, zipcodes, nextId,
                    branch, error, snap, old, before, log, ins, del >>

Next ==
    \/ StartRun
    \/ TxTimeout
    \/ ResyncRead
    \/ ResyncDecide
    \/ ResyncNull
    \/ ResyncDelete
    \/ ResyncCreate
    \/ ResyncCommit
    \/ LoadCompany
    \/ LoadAddress
    \/ LoadCategory
    \/ LoadSubCategory
    \/ LoadUser
    \/ LoadProduct
    \/ LoadCart
    \/ LoadOrderRequest
    \/ LoadItems
    \/ LoadTotals
    \/ LoadBudget
    \/ LoadCommit
    \/ ManualAddItem
    \/ ManualDeleteItem
    \/ ManualEdit
    \/ ManualAddCompany
    \/ ManualReenterItem
    \/ ManualAddOrder
    \/ ManualEditDataset

Spec == Init /\ [][Next]_vars

\* the program of src/prisma/seed.ts:47-453 alone
InitSeed == Init /\ variant = "seed"
SpecSeed == InitSeed /\ [][Next]_vars

\* seed.ts:47-453 on the shipped datasets, with steps 8 and 9 of the load
\* taken operation by operation
InitPar == InitSeed /\ data = BaseData

NextPar ==
    \/ StartRun
    \/ TxTimeout
    \/ ResyncRead
    \/ ResyncDecide
    \/ ResyncNull
    \/ ResyncDelete
    \/ ResyncCreate
    \/ ResyncCommit
    \/ LoadCompany
    \/ LoadAddress
    \/ LoadCategory
    \/ LoadSubCategory
    \/ LoadUser
    \/ LoadProduct
    \/ LoadCart
    \/ LoadOrderRequest
    \/ ParItemsIssue
    \/ ParItemCreate
    \/ ParTotalsIssue
    \/ ParTotalUpdate
    \/ ParTotalsJoin
    \/ LoadBudget
    \/ LoadCommit
    \/ ManualAddItem
    \/ ManualDeleteItem

SpecPar == InitPar /\ [][NextPar]_vars

(***************************************************************************)
(* Properties.                                                             *)
(***************************************************************************)
\* the state a run is in right after its load, or its resync, committed
AtLoadCommitted == pc = AfterLoad(variant)
AtResyncCommitted == pc = AfterResync(variant)

LoadTables == Tables \ { "zip" }

TotalsExact ==
    \A id \in Range(orderRequestIds) :
        \E r \in db.orderRequest :
            r.id = id /\ r.totalAmount = SumItems(ItemsOf(db.item, id))

\* C1: once the load has committed, every seeded order request's stored
\* totalAmount is the sum of price * quantity over the order-request items
\* stored for it, whether the load created them or found them.
C1_TotalsAfterLoad == AtLoadCommitted => TotalsExact

C1_Witness ==
    /\ AtLoadCommitted
    /\ run = 2
    /\ \E it \in db.item : it.id = ManualItemId /\ it.orderRequestId = "or3"
    /\ \E r \in db.orderRequest : r.id = "or1" /\ r.totalAmount = 3500
    /\ \E r \in db.orderRequest : r.id = "or3" /\ r.totalAmount = 1100

\* C2: a second run of the load, right after a completed first run and with
\* the same datasets, inserts no row into any table the load writes.
C2_SecondRunInsertsNothing ==
    (AtLoadCommitted /\ run = 2 /\ before = "done")
        => \A t \in LoadTables : ins[t] = 0

\* C3: while a unit of work is running, and after it has failed, the
\* committed store is the store the unit began with: none of the unit's
\* writes is committed unless all are.
C3_AllOrNothing ==
    pc \in ResyncPcs \cup LoadPcs \cup { "failed" } => db = snap

C3_Witness ==
    /\ pc = "failed"
    /\ error.dirty
    /\ error.kind = "BadRequest"
    /\ error.at \in LoadPcs
    /\ db = snap

\* the fingerprint-relevant content of a row, and of a dataset
Relevant(r) == << r.postalCode, r.feeType, r.isActive >>
WithoutId(r) ==
    [ postalCode |-> r.postalCode, feeType |-> r.feeType,
      isActive |-> r.isActive, juso |-> r.juso ]
Stored(rows) == [i \in 1..Len(rows) |-> WithoutId(rows[i])]

SameFingerprint(a, b) ==
    /\ Len(a) = Len(b)
    /\ \A i \in 1..Len(a) : Relevant(a[i]) = Relevant(b[i])

Perms(n) == { f \in [1..n -> 1..n] : \A i, j \in 1..n : f[i] = f[j] => i = j }

\* the same rows up to their order
SameContent(a, b) ==
    /\ Len(a) = Len(b)
    /\ \E f \in Perms(Len(a)) :
           \A i \in 1..Len(a) : Relevant(a[f[i]]) = Relevant(b[i])

ResyncUntouched ==
    /\ del["zip"] = 0
    /\ ins["zip"] = 0
    /\ db.zip = old.zip
    /\ db.address = old.address

\* C4 as stated: when the incoming dataset of a second run has the
\* fingerprint of the stored one, the resync deletes nothing, inserts nothing, leaves the
\* addresses' references alone and takes the no-op branch.
C4_UnchangedIsNoOp ==
    (AtResyncCommitted /\ run > 1 /\ SameFingerprint(old.zip, zipcodes))
        => (ResyncUntouched /\ branch = "no-op")

\* C4 as amended: the same, with the no-op branch taken when the store
\* holds at least one reference row; an unchanged empty dataset takes the
\* empty-load branch, which then inserts nothing.
C4_UnchangedChangesNothing ==
    (AtResyncCommitted /\ run > 1 /\ SameFingerprint(old.zip, zipcodes))
        => /\ ResyncUntouched
           /\ branch = IF Len(old.zip) = 0 THEN "empty-load" ELSE "no-op"

C4_Witness ==
    /\ AtResyncCommitted
    /\ run = 2
    /\ Len(old.zip) = 2
    /\ SameFingerprint(old.zip, zipcodes)
    /\ branch = "no-op"
    /\ \E a \in db.address : a.zipcodeId # 0

\* C5: an incoming dataset that holds the stored rows' code, feeClass and
\* active values, in whatever order and however padded, needs no resync.
C5_ReorderedIsNoOp ==
    (AtResyncCommitted /\ Len(old.zip) > 0 /\ SameContent(old.zip, zipcodes))
        => (branch = "no-op" /\ ResyncUntouched)

\* C6: when the store holds reference rows and the incoming code, feeClass
\* or active values differ from the stored ones, the committed resync
\* leaves exactly the incoming rows, none of them a row of the old set.
C6_ChangedContentReplaces ==
    (/\ AtResyncCommitted
     /\ file.exists
     /\ Len(old.zip) > 0
     /\ ~SameContent(old.zip, zipcodes))
        => /\ Stored(db.zip) = zipcodes
           /\ ZipIds(db) \cap ZipIds(old) = {}

\* the number of data lines of the feed
FeedRows == Cardinality({ i \in 2..Len(file.text) : file.text[i] # BlankLine })

\* C7: on an empty reference table the resync takes the empty-load branch,
\* deletes nothing, and leaves one stored row per data line of the feed.
C7_EmptyLoad ==
    (AtResyncCommitted /\ Len(old.zip) = 0)
        => /\ branch = "empty-load"
           /\ del["zip"] = 0
           /\ { "zip-delete", "unlink" } \cap Range(log) = {}
           /\ Len(db.zip) = FeedRows
           /\ ins["zip"] = FeedRows
           /\ Stored(db.zip) = zipcodes

C7_Witness ==
    /\ AtResyncCommitted
    /\ Len(old.zip) = 0
    /\ branch = "empty-load"
    /\ FeedRows = 2
    /\ Len(db.zip) = 2

\* the program's lookup finds no stored reference row for the address
Miss(a, zips) == Matches(variant, zips, a) = {}

Rank(b) ==
    CASE b \in { "zip", "zip-delete", "unlink" } -> 0
      [] b = "company" -> 1
      [] b \in { "address", "category" } -> 2
      [] b = "subcategory" -> 3
      [] b = "user" -> 4
      [] b = "product" -> 5
      [] b = "cart" -> 6
      [] b = "orderRequest" -> 7
      [] b = "item" -> 8
      [] b = "totals" -> 9
      [] OTHER -> 10

\* C9: the batches of a run are written in dependency order: reference
\* codes, companies, addresses and parent categories, sub-categories,
\* users, products, carts, order requests, their items, the totals.
C9_DependencyOrder ==
    \A i, j \in 1..Len(log) : i < j => Rank(log[i]) <= Rank(log[j])

LacksField(line) == \E i \in 1..4 : Falsy(line, i)

\* C10: a feed with a data line that lacks one of its four fields gets no
\* further than the parse, and the parse fails with the malformed-row
\* error that carries the line, leaving the reference table as it was.
C10_MalformedRowFails ==
    /\ pc \in ResyncPcs \ { "z_read" }
           => \A i \in 2..Len(file.text) :
                  file.text[i] = BlankLine \/ ~LacksField(file.text[i])
    /\ (/\ pc = "failed"
        /\ error.at = "z_read"
        /\ error.kind # "Timeout"
        /\ error.msg # "zipcodes.tsv not found")
           => /\ error.kind = "BadRequest"
              /\ LacksField(error.line)
              /\ db.zip = old.zip

\* a requester of the seeded order requests (users[0], users[6], users[1])
\* is not in the dataset; the seed organization (companies[0]) is not
RequesterMissing == \E i \in 1..3 : Len(data.users) < RequesterIndex[i]
OrganizationMissing == Len(data.companies) = 0
OrderSteps == { "l_items", "l_totals", "l_budget", "l_commit" }

\* C11: with a requester of a seeded order request or the seed
\* organization missing from the dataset, the load never completes, and a
\* load that fails does so before the order requests are written, with the
\* error that names the missing identifier, not with a store error.
C11_MissingIdIsNamed ==
    /\ (RequesterMissing \/ OrganizationMissing)
           => ~(pc \in OrderSteps \/ (AtLoadCommitted /\ run > 0))
    /\ (/\ RequesterMissing \/ OrganizationMissing
        /\ pc = "failed"
        /\ error.at \in LoadPcs
        /\ error.kind # "Timeout")
           => /\ error.kind = "BadRequest"
              /\ error.at = "l_order"
              /\ error.msg = IF OrganizationMissing /\ Len(data.users) > 0
                             THEN "COMPANY_ID_NOT_FOUND"
                             ELSE "REQUESTER_ID_NOT_FOUND"

\* a seeded line item names a product (products[i]) the dataset lacks
ProductMissing == \E i \in 1..6 : Len(data.products) < ItemProduct[i]

\* C12: with a seeded line item naming a product the dataset lacks, the
\* item step writes no row, and its failure is the loader's own validation
\* error naming the product, not a runtime or store error.
C12_MissingProductIsNamed ==
    /\ ProductMissing => pc \notin { "l_totals", "l_budget", "l_commit" }
    /\ (/\ ProductMissing
        /\ pc = "failed"
        /\ error.at = "l_items"
        /\ error.kind # "Timeout")
           => /\ error.kind = "BadRequest"
              /\ error.msg = "PRODUCT_ID_NOT_FOUND"

\* the tables the load only ever appends to
AppendOnly == { "company", "user", "product" }
Dataset(t) ==
    CASE t = "company" -> Range(data.companies)
      [] t = "user" -> Range(data.users)
      [] OTHER -> Range(data.products)

\* C13: during and after a load every company, user and product row the
\* store held before the run is still there field for field, and every
\* other row of these tables is a dataset row whose id was not stored.
C13_AppendOnly ==
    /\ pc \in LoadPcs
           => \A t \in AppendOnly : old[t] \subseteq tx[t]
    /\ (AtLoadCommitted /\ run > 0)
           => \A t \in AppendOnly :
                  /\ old[t] \subseteq db[t]
                  /\ \A r \in db[t] \ old[t] :
                         r.id \notin Ids(old[t]) /\ r \in Dataset(t)
                  /\ ins[t] = Cardinality(db[t] \ old[t])

C13_Witness ==
    /\ AtLoadCommitted
    /\ run = 2
    /\ before = "edited"
    /\ \E r \in db.product : r.id = "p2" /\ r.price = EditedPrice
    /\ \E i \in 1..Len(data.products) :
           data.products[i].id = "p2" /\ data.products[i].price # EditedPrice

\* C14: every category row a run inserts, parent or sub-category, carries
\* the id of the seed organization (companies[0]), whatever companyId the
\* dataset's record carried.
C14_CategoryStamped ==
    /\ pc \in LoadPcs
           => \A r \in tx.category \ old.category :
                  HasTestCompany /\ r.companyId = testCompany.id
    /\ (AtLoadCommitted /\ run > 0)
           => \A r \in db.category \ old.category :
                  HasTestCompany /\ r.companyId = testCompany.id

\* C15: in every committed state no two order-request items of one order
\* request name the same product, and no two order items of one order do.
C15_UniquePairs ==
    /\ \A a, b \in db.item :
           (a.orderRequestId = b.orderRequestId /\ a.productId = b.productId)
               => a = b
    /\ \A a, b \in db.orderItem :
           (a.orderId = b.orderId /\ a.productId = b.productId) => a = b

C15_Witness ==
    /\ pc = "failed"
    /\ error.at = "l_items"
    /\ error.msg = "P2002"
    /\ Cardinality(db.item) = 6
    /\ \E it \in db.item : it.id = ManualItemId /\ it.orderRequestId = "or3"

\* a seeded line item whose (order request, product) pair is stored under
\* an id other than its own
StoredUnderOtherId(s) ==
    { i \in 1..6 :
        /\ Len(data.products) >= ItemProduct[i]
        /\ \E r \in s.item :
               /\ r.id # orderRequestItemsIds[i]
               /\ r.orderRequestId = orderRequestIds[ItemRequest[i]]
               /\ r.productId = data.products[ItemProduct[i]].id }

\* C16: a seeded line item whose pair is already stored under another id
\* is left out of the write by the loader: the item step never ends in the
\* store's unique-constraint error.
C16_DuplicatePrevented ==
    (pc = "failed" /\ error.at = "l_items" /\ StoredUnderOtherId(db) # {})
        => ~(error.kind = "Prisma" /\ error.msg = "P2002")

\* the seeded line items that were deleted outside the seed program: their
\* order requests were stored when the run began, they were not
DeletedOutside ==
    { i \in 1..6 :
        /\ orderRequestIds[ItemRequest[i]] \in Ids(old.orderRequest)
        /\ orderRequestItemsIds[i] \notin Ids(old.item) }

\* C17: a load run after a seeded line item was deleted outside the seed
\* program leaves the item deleted, and every seeded order request with
\* the line items it had when the run began and their sum as its total.
C17_DeletedItemStaysDeleted ==
    (AtLoadCommitted /\ run > 1 /\ DeletedOutside # {})
        => /\ \A i \in DeletedOutside :
                  orderRequestItemsIds[i] \notin Ids(db.item)
           /\ \A id \in Range(orderRequestIds) :
                  /\ ItemsOf(db.item, id) = ItemsOf(old.item, id)
                  /\ \E r \in db.orderRequest :
                         /\ r.id = id
                         /\ r.totalAmount = SumItems(ItemsOf(old.item, id))

\* C18: the resync and the load are separate units.  A load that fails
\* leaves the reference rows its run's resync committed; and a resync that
\* fails leaves a load that would succeed (the full dataset on an empty
\* store) committed all the same.
C18_SeparateUnits ==
    /\ (pc = "failed" /\ error.at \in LoadPcs /\ variant # "legacy")
           => /\ Len(db.zip) = Len(old.zip) - del["zip"] + ins["zip"]
              /\ db.zip = snap.zip
    /\ (/\ pc = "failed"
        /\ error.at \in ResyncPcs
        /\ data = BaseData
        /\ old = EmptyStore)
           => /\ Ids(db.orderRequest) = Range(orderRequestIds)
              /\ Ids(db.product) = Ids(Range(data.products))

\* C19: a load run after a product's price changed, in the store or in the
\* dataset, leaves every line item that was stored as it was, price
\* included, and leaves the total of every order request whose items are
\* the ones it had, and summed to it, as it was.
C19_PriceSnapshot ==
    (AtLoadCommitted /\ run > 1)
        => /\ old.item \subseteq db.item
           /\ \A r \in old.orderRequest :
                  (/\ ItemsOf(db.item, r.id) = ItemsOf(old.item, r.id)
                   /\ r.totalAmount = SumItems(ItemsOf(old.item, r.id)))
                      => r \in db.orderRequest

C19_Witness ==
    /\ AtLoadCommitted
    /\ run = 2
    /\ before = "edited"
    /\ \E q \in db.product : q.id = "p2" /\ q.price = EditedPrice
    /\ \E it \in db.item :
           it.id = "it2" /\ it.productId = "p2" /\ it.price = 500
    /\ \E r \in db.orderRequest : r.id = "or1" /\ r.totalAmount = 3500
    /\ old.item = db.item

\* the incoming rows are the stored ones but for the address text
AddressOnlyChange ==
    /\ Len(old.zip) > 0
    /\ SameFingerprint(old.zip, zipcodes)
    /\ \E i \in 1..Len(zipcodes) : zipcodes[i].juso # old.zip[i].juso

\* C20: when the incoming dataset differs from the stored rows in the
\* address text alone, the resync reports no change: no reference row is
\* deleted or inserted, and the stored rows keep their address.
C20_AddressChangeIsNoChange ==
    (AtResyncCommitted /\ AddressOnlyChange)
        => /\ branch = "no-op"
           /\ del["zip"] = 0
           /\ ins["zip"] = 0
           /\ db.zip = old.zip

C20_Witness ==
    /\ AtResyncCommitted
    /\ run = 2
    /\ AddressOnlyChange
    /\ branch = "no-op"
    /\ Len(db.zip) = 2

\* the run's resync has completed
ResyncPassed ==
    /\ run > 0
    /\ IF variant = "legacy" THEN pc = "done"
       ELSE pc \in (ResyncPcs \ { "z_read" }) \cup LoadPcs \cup { "done" }

\* C21: a run whose feed file is missing never gets past the resync, and
\* the resync's failure on the missing file is the input-validation error,
\* with the store left as the run found it.
C21_MissingFileFails ==
    /\ ~file.exists => ~ResyncPassed
    /\ (pc = "failed" /\ error.at = "z_read"
            /\ error.msg = "zipcodes.tsv not found")
           => (error.kind = "BadRequest" /\ db = old)

RowsFor(a, zips) ==
    { i \in 1..Len(zips) :
        zips[i].postalCode = a.postalCode /\ zips[i].juso = a.address }

\* C23: after a run whose resync replaced the reference table and whose
\* load committed, every stored address with a stored reference row of
\* its postal code and address text references such a row; so does every
\* address that referenced a row before the run.
C23_ReassociatedAfterReplace ==
    (AtLoadCommitted /\ variant # "legacy" /\ branch = "full-replace")
        => /\ \A a \in db.address :
                  RowsFor(a, db.zip) # {}
                      => \E i \in RowsFor(a, db.zip) : a.zipcodeId = db.zip[i].id
           /\ \A a \in old.address :
                  (a.zipcodeId # 0 /\ RowsFor(a, db.zip) # {})
                      => \E b \in db.address : b.id = a.id /\ b.zipcodeId # 0

C25_ExactMatchOnly ==
    AtLoadCommitted
        => /\ \A a \in db.address :
                a.zipcodeId # 0
                    => \E i \in 1..Len(db.zip) :
                          /\ db.zip[i].id = a.zipcodeId
                          /\ db.zip[i].postalCode = a.postalCode
                          /\ db.zip[i].juso = a.address
           /\ \A k \in 1..Len(data.companyAddresses) :
                LET a == data.companyAddresses[k]
                IN  \A i \in Matches(variant, db.zip, a) :
                        /\ db.zip[i].postalCode = a.postalCode
                        /\ db.zip[i].juso = a.address

\* C26: when the load has committed, the stored budgets include every
\* budget stored before the run and every budget of the dataset, and a
\* second run right after a completed one deletes and inserts no budget.
C26_BudgetsAppendOnly ==
    (AtLoadCommitted /\ variant = "seed")
        => /\ old.budget \subseteq db.budget
           /\ Range(data.budgets) \subseteq db.budget
           /\ (run = 2 /\ before = "done")
                  => (ins["budget"] = 0 /\ del["budget"] = 0)

\* what one successful load of the datasets stores, on a store that holds
\* the reference rows `zips` and nothing else
SingleRun(zips) ==
    [ company |-> Range(data.companies),
      address |-> Range(addressesToCreate(variant, zips, data.companyAddresses)),
      category |-> Range(Stamp(data.categories, data.companies[1].id))
                     \cup Range(Stamp(data.subCategories, data.companies[1].id)),
      user |-> Range(data.users),
      product |-> Range(data.products),
      cart |-> Range(data.carts),
      orderRequest |->
          { [r EXCEPT !.totalAmount =
                SumItems(ItemsOf(Range(orderRequestItems), r.id))] :
            r \in Range(OrderRequestRows) },
      item |-> Range(orderRequestItems),
      budget |-> { b \in Range(data.budgets) : ~isValidCuid2(b.id) },
      orderItem |-> {} ]

C28_InterleavingsAgree ==
    /\ pc = "p_totals"
           => \A o \in pending :
                 /\ o.op = "update"
                 /\ o.total = SumItems(ItemsOf(tx.item, o.id))
                 /\ \A q \in pending : q.id = o.id => q = o
    /\ pc \in { "l_budget", "l_commit" }
           => /\ pending = {}
              /\ tx.item = snap.item
                     \cup Range(itemsToCreate(orderRequestItems, snap.item))
              /\ \A id \in Range(orderRequestIds) :
                    \E r \in tx.orderRequest :
                        /\ r.id = id
                        /\ r.totalAmount = SumItems(ItemsOf(tx.item, id))

C28_Witness ==
    /\ pc = "l_budget"
    /\ pending = {}
    /\ ins["item"] = 6
    /\ \E r \in tx.orderRequest : r.id = "or2" /\ r.totalAmount = 1500

\* C29: a run of the load on a store that holds order requests leaves each
\* of them with the lifecycle status, and every other field, it had before
\* the run; only its totalAmount may have been rewritten.
C29_StatusKept ==
    (AtLoadCommitted /\ run = 2)
        => \A r \in old.orderRequest :
              \E q \in db.orderRequest :
                  /\ q.id = r.id
                  /\ q.status = r.status
                  /\ q = [r EXCEPT !.totalAmount = q.totalAmount]

C29_Witness ==
    /\ AtLoadCommitted
    /\ run = 2
    /\ before = "edited"
    /\ \E r \in db.orderRequest : r.id = "or1" /\ r.status = "APPROVED"
    /\ ins["orderRequest"] = 0

\* C30: the zipcodeId stored for an address is absent or the id of a
\* stored row the resolver finds for the address; the zipcodeId a dataset
\* supplies for an address is stored only if it is that id.
C30_SuppliedIdDropped ==
    AtLoadCommitted
        => /\ \A a \in db.address :
                a.zipcodeId # 0
                    => \E i \in Matches(variant, db.zip, a) :
                          db.zip[i].id = a.zipcodeId
           /\ \A k \in 1..Len(data.companyAddresses) :
                \A a \in db.address :
                    (/\ a.id = data.companyAddresses[k].id
                     /\ a.zipcodeId # 0
                     /\ a.zipcodeId = data.companyAddresses[k].zipcodeId)
                        => \E i \in Matches(variant, db.zip, a) :
                              db.zip[i].id = a.zipcodeId

C30_Witness ==
    /\ AtLoadCommitted
    /\ \E k \in 1..Len(data.companyAddresses) :
          \E a \in db.address :
              /\ a.id = data.companyAddresses[k].id
              /\ data.companyAddresses[k].zipcodeId \in ZipIds(db)
              /\ a.zipcodeId = 0
    /\ \E a \in db.address : a.zipcodeId # 0

=============================================================================
